---- MODULE Spec2Model ----
(***************************************************************************)
(* State-machine model of the blog application's request handlers          *)
(* (blogicum/blog/views.py) over the relational store they read and write. *)
(*                                                                         *)
(* The store holds Post and Comment rows and the Category flags; every     *)
(* request handler is one action that computes the HTTP response and the   *)
(* new store.  Behaviour of the framework's generic views (ListView,       *)
(* DetailView, UpdateView, DeleteView, LoginRequiredMixin, Paginator) is   *)
(* modelled at the lines of views.py that invoke it.                       *)
(***************************************************************************)
EXTENDS Integers, Sequences, FiniteSets, TLC

\* ------------------------------------------------------------------ bounds
MaxPosts == 2
MaxComments == 1
MaxDate == 1
MaxItems == 26

\* ------------------------------------------------------- program constants
\* paginate_by = 10 (ProfileListView, PostListView, CategoryDetailView)
paginate_by == 10

\* ----------------------------------------------------------------- domains
Users == {"u1", "u2"}
Anonymous == "anonymous"
GhostUser == "ghost"
Requesters == Users \cup {Anonymous}
Usernames == Users \cup {GhostUser}
Slugs == {"c1"}
GhostSlug == "noslug"
SlugArgs == Slugs \cup {GhostSlug}
Dates == 0..MaxDate
NoDate == -1
Texts == {"a", "b"}
PostPks == 1..MaxPosts
CommentPks == 1..(IF MaxPosts > MaxComments THEN MaxPosts ELSE MaxComments)

VARIABLES
    posts,        \* Post rows: pk -> [author, is_published, category, pub_date]
    comments,     \* Comment rows: pk -> [author, post, text]
    categories,   \* Category rows: slug -> [is_published]; every Post has one
    post_seq,     \* last primary key handed out to a Post
    comment_seq,  \* last primary key handed out to a Comment
    today,        \* date.today()
    import_date,  \* date.today() as evaluated when views.py was imported
    resp,         \* the response of the request handled by the last step
    listing       \* pagination of an abstract visible listing (SpecPage)

vars == <<posts, comments, categories, post_seq, comment_seq, today,
          import_date, resp, listing>>
store == <<posts, comments, categories, post_seq, comment_seq>>

\* ---------------------------------------------------------------- requests
\* request.user.is_authenticated
is_authenticated(user) == user # Anonymous

\* The page query parameter, request.GET.get('page'): absent, the text of an
\* integer, the word "last", or any other text.
NoPage == [kind |-> "absent", n |-> 0]
PageInt(k) == [kind |-> "int", n |-> k]
PageLast == [kind |-> "last", n |-> 0]
PageText == [kind |-> "text", n |-> 0]
PageNumbers == {-1, 0, 1, 2, 3, 4, 99}
PageParams == {NoPage, PageLast, PageText} \cup {PageInt(k) : k \in PageNumbers}
\* Page parameters of the listing requests made against the store.
StorePageParams == {NoPage}

Response(op, user, pk, name, status, items) ==
    [op |-> op, user |-> user, pk |-> pk, name |-> name,
     status |-> status, items |-> items]
NoResponse == Response("none", Anonymous, 0, "", "none", <<>>)
NoListing == [n |-> 0, view |-> "none", param |-> NoPage,
              status |-> "none", items |-> <<>>]

\* --------------------------------------------------------------- paginator
\* Paginator.num_pages with orphans = 0 and allow_empty_first_page = True:
\* ceil(max(1, count) / per_page).
num_pages(count) ==
    LET hits == IF count > 1 THEN count ELSE 1
    IN  (hits + paginate_by - 1) \div paginate_by

\* Paginator.validate_number: the outcome for a page parameter.
validate_number(param, count) ==
    IF param.kind # "int" THEN "PageNotAnInteger"
    ELSE IF param.n < 1 THEN "EmptyPage"
    ELSE IF param.n > num_pages(count) THEN "EmptyPage"
    ELSE "ok"

\* Paginator.page(number).object_list for a valid number.
page_items(seq, number) ==
    LET bottom == (number - 1) * paginate_by
        top    == IF bottom + paginate_by >= Len(seq) THEN Len(seq)
                  ELSE bottom + paginate_by
    IN  SubSeq(seq, bottom + 1, top)

\* Paginator.get_page(page_number), as CategoryDetailView calls it: a
\* parameter that is no integer selects page 1, an EmptyPage (a number below
\* 1 or beyond the last page) selects the last page.
get_page(seq, param) ==
    LET v == validate_number(param, Len(seq))
        number == IF v = "PageNotAnInteger" THEN 1
                  ELSE IF v = "EmptyPage" THEN num_pages(Len(seq))
                  ELSE param.n
    IN  [status |-> "200", items |-> page_items(seq, number)]

\* MultipleObjectMixin.paginate_queryset, which ListView runs when
\* paginate_by is set: an absent parameter is page 1, "last" is the last
\* page, any other text is Http404, and an invalid number is Http404.
paginate_queryset(seq, param) ==
    LET number == IF param.kind = "absent" THEN 1
                  ELSE IF param.kind = "last" THEN num_pages(Len(seq))
                  ELSE param.n
    IN  IF param.kind = "text" THEN [status |-> "404", items |-> <<>>]
        ELSE IF validate_number(PageInt(number), Len(seq)) # "ok"
             THEN [status |-> "404", items |-> <<>>]
        ELSE [status |-> "200", items |-> page_items(seq, number)]

\* --------------------------------------------------------------- querysets
\* All orderings of a finite set of primary keys.
Orderings(S) ==
    {s \in [1..Cardinality(S) -> S] :
        \A i, j \in 1..Cardinality(S) : i # j => s[i] # s[j]}

\* .order_by('-pub_date'): newest first; the store fixes no order among rows
\* of equal pub_date, so every such order is a possible result.
order_by_pub_date_desc(S) ==
    {s \in Orderings(S) :
        \A i \in 1..(Cardinality(S) - 1) :
            posts[s[i]].pub_date >= posts[s[i + 1]].pub_date}

\* get_published_posts(): the filter arguments are evaluated when the call is
\* made, so the cutoff is the date passed in.
get_published_posts(cutoff) ==
    {p \in DOMAIN posts :
        /\ posts[p].pub_date <= cutoff
        /\ posts[p].is_published
        /\ categories[posts[p].category].is_published}

\* PostListView.queryset is a class attribute: get_published_posts() ran once,
\* when the module was imported.
PostListView_queryset == get_published_posts(import_date)

\* The own-profile branch as it would be with the date filter of the other
\* branch copied into it: scheduled posts would be hidden from their author.
ProfileListView_own_queryset_dated(username) ==
    {p \in DOMAIN posts :
        posts[p].author = username /\ posts[p].pub_date <= today}

\* ProfileListView.get_queryset, the request user's own profile.
ProfileListView_own_queryset(username) ==
    {p \in DOMAIN posts : posts[p].author = username}

\* ProfileListView.get_queryset, somebody else's profile.
ProfileListView_other_queryset(username) ==
    {p \in DOMAIN posts :
        posts[p].author = username /\ posts[p].pub_date <= today}

ProfileListView_get_queryset(user, username) ==
    IF user = username THEN ProfileListView_own_queryset(username)
    ELSE ProfileListView_other_queryset(username)

\* The queryset CategoryDetailView.get_context_data paginates.
CategoryDetailView_queryset(slug) ==
    {p \in DOMAIN posts :
        /\ posts[p].category = slug
        /\ posts[p].is_published
        /\ posts[p].pub_date <= today}


\* ------------------------------------------------------------------- state
Init ==
    /\ posts = <<>>
    /\ comments = <<>>
    /\ categories = [s \in Slugs |-> [is_published |-> TRUE]]
    /\ post_seq = 0
    /\ comment_seq = 0
    /\ today = 0
    /\ import_date = 0
    /\ resp = NoResponse
    /\ listing = NoListing

\* ------------------------------------------------------ steps of the world
\* Midnight passes: date.today() moves on, the imported module does not.
AdvanceDate ==
    /\ today < MaxDate
    /\ today' = today + 1
    /\ resp' = NoResponse
    /\ UNCHANGED <<store, import_date, listing>>

\* The server process restarts and imports views.py again, which evaluates
\* the class body of PostListView.
ImportViews ==
    /\ import_date # today
    /\ import_date' = today
    /\ resp' = NoResponse
    /\ UNCHANGED <<store, today, listing>>

\* The admin site's list_editable column is_published of PostAdmin.
PostAdmin_set_is_published(pk, flag) ==
    /\ pk \in DOMAIN posts
    /\ posts' = [posts EXCEPT ![pk].is_published = flag]
    /\ resp' = NoResponse
    /\ UNCHANGED <<comments, categories, post_seq, comment_seq, today,
                   import_date, listing>>

\* The admin site's change form of CategoryAdmin.
CategoryAdmin_set_is_published(slug, flag) ==
    /\ categories' = [categories EXCEPT ![slug].is_published = flag]
    /\ resp' = NoResponse
    /\ UNCHANGED <<posts, comments, post_seq, comment_seq, today,
                   import_date, listing>>

\* ----------------------------------------------------------- read handlers
\* GET /profile/<username>/
ProfileListView(user, username, param) ==
    /\ IF username \notin Users
       THEN resp' = Response("ProfileListView", user, 0, username, "404", <<>>)
       ELSE IF ~is_authenticated(user)
       THEN resp' = Response("ProfileListView", user, 0, username,
                             "302_login", <<>>)
       ELSE \E qs \in order_by_pub_date_desc(
                          ProfileListView_get_queryset(user, username)) :
                LET r == paginate_queryset(qs, param)
                IN  resp' = Response("ProfileListView", user, 0, username,
                                     r.status, r.items)
    /\ UNCHANGED <<store, today, import_date, listing>>

\* GET /
PostListView(user, param) ==
    /\ \E qs \in order_by_pub_date_desc(PostListView_queryset) :
           LET r == paginate_queryset(qs, param)
           IN  resp' = Response("PostListView", user, 0, "", r.status, r.items)
    /\ UNCHANGED <<store, today, import_date, listing>>

\* GET /posts/<pk>/
PostDetailView(user, pk) ==
    /\ IF pk \notin DOMAIN posts
       THEN resp' = Response("PostDetailView", user, pk, "", "404", <<>>)
       ELSE resp' = Response("PostDetailView", user, pk, "", "200", <<pk>>)
    /\ UNCHANGED <<store, today, import_date, listing>>

\* GET /category/<category_slug>/
CategoryDetailView(user, slug, param) ==
    /\ IF slug \notin DOMAIN categories
       THEN resp' = Response("CategoryDetailView", user, 0, slug, "404", <<>>)
       ELSE \E qs \in order_by_pub_date_desc(CategoryDetailView_queryset(slug)) :
                LET r == get_page(qs, param)
                IN  resp' = Response("CategoryDetailView", user, 0, slug,
                                     r.status, r.items)
    /\ UNCHANGED <<store, today, import_date, listing>>

\* ------------------------------------------------------- mutation handlers
\* POST /posts/create/.  LoginRequiredMixin answers an anonymous caller with
\* the redirect to the login page; PostValidMixin.form_valid sets the author
\* and fills an empty pub_date with date.today(); is_published is excluded
\* from PostForm and keeps the model's default.
PostCreateView(user, valid, category, pub_date) ==
    /\ IF ~is_authenticated(user)
       THEN /\ resp' = Response("PostCreateView", user, 0, "", "302_login", <<>>)
            /\ UNCHANGED <<posts, post_seq>>
       ELSE IF ~valid
       THEN /\ resp' = Response("PostCreateView", user, 0, "", "200_form", <<>>)
            /\ UNCHANGED <<posts, post_seq>>
       ELSE /\ post_seq < MaxPosts
            /\ post_seq' = post_seq + 1
            /\ posts' = posts @@ (post_seq + 1 :>
                   [author |-> user, is_published |-> TRUE,
                    category |-> category,
                    pub_date |-> IF pub_date = NoDate THEN today ELSE pub_date])
            /\ resp' = Response("PostCreateView", user, post_seq + 1, "",
                                "302_success", <<>>)
    /\ UNCHANGED <<comments, categories, comment_seq, today, import_date,
                   listing>>

\* The outcome of PostUpdateView.dispatch.  The lookup comes first, then the
\* comparison with the author (which an AnonymousUser fails too), and only
\* then the is_authenticated test.  dispatch stores the Post in self.post,
\* which hides the view's post() method: View.dispatch then calls the Post
\* object for a POST request and the request ends in a server error.
PostUpdateView_dispatch(user, pk, method) ==
    IF pk \notin DOMAIN posts THEN "404"
    ELSE IF user # posts[pk].author THEN "403"
    ELSE IF ~is_authenticated(user) THEN "302_detail"
    ELSE IF method = "GET" THEN "200_form"
    ELSE "500"

\* GET or POST /posts/<pk>/edit/
PostUpdateView(user, pk, method) ==
    /\ resp' = Response("PostUpdateView", user, pk, method,
                        PostUpdateView_dispatch(user, pk, method), <<>>)
    /\ UNCHANGED <<store, today, import_date, listing>>

\* The outcome of PostDeleteView.dispatch and, for the author, of
\* DeletionMixin.delete: the view sets no success_url, so get_success_url(),
\* which delete() calls before it deletes, raises ImproperlyConfigured.
PostDeleteView_dispatch(user, pk) ==
    IF pk \notin DOMAIN posts THEN "404"
    ELSE IF posts[pk].author # user THEN "403"
    ELSE "500"

\* POST /posts/<pk>/delete/
PostDeleteView(user, pk) ==
    /\ resp' = Response("PostDeleteView", user, pk, "",
                        PostDeleteView_dispatch(user, pk), <<>>)
    /\ UNCHANGED <<store, today, import_date, listing>>

\* POST /posts/<pk>/comment/
CommentCreateView(user, pk, valid, text) ==
    /\ IF pk \notin DOMAIN posts
       THEN /\ resp' = Response("CommentCreateView", user, pk, "", "404", <<>>)
            /\ UNCHANGED <<comments, comment_seq>>
       ELSE IF ~is_authenticated(user)
       THEN /\ resp' = Response("CommentCreateView", user, pk, "",
                                "302_login", <<>>)
            /\ UNCHANGED <<comments, comment_seq>>
       ELSE IF ~valid
       THEN /\ resp' = Response("CommentCreateView", user, pk, "",
                                "200_form", <<>>)
            /\ UNCHANGED <<comments, comment_seq>>
       ELSE /\ comment_seq < MaxComments
            /\ comment_seq' = comment_seq + 1
            /\ comments' = comments @@ (comment_seq + 1 :>
                   [author |-> user, post |-> pk, text |-> text])
            /\ resp' = Response("CommentCreateView", user, pk, "",
                                "302_success", <<>>)
    /\ UNCHANGED <<posts, categories, post_seq, today, import_date, listing>>

\* The outcome of CommentMixin.dispatch: "pass" when the request goes on to
\* the generic view.  The row looked up is the Post whose pk is comment_id.
CommentMixin_dispatch(user, comment_id) ==
    IF comment_id \notin DOMAIN posts THEN "404"
    ELSE IF posts[comment_id].author # user THEN "302_index"
    ELSE "pass"

\* The outcome of the generic view behind CommentMixin.dispatch:
\* LoginRequiredMixin, then get_object() on Comment with pk = comment_id.
Comment_get_object(user, comment_id) ==
    IF ~is_authenticated(user) THEN "302_login"
    ELSE IF comment_id \notin DOMAIN comments THEN "404"
    ELSE "found"

\* POST /posts/<post_id>/edit_comment/<comment_id>/
CommentUpdateView(user, comment_id, valid, text) ==
    /\ IF CommentMixin_dispatch(user, comment_id) # "pass"
       THEN /\ resp' = Response("CommentUpdateView", user, comment_id, "",
                                CommentMixin_dispatch(user, comment_id), <<>>)
            /\ UNCHANGED comments
       ELSE IF Comment_get_object(user, comment_id) # "found"
       THEN /\ resp' = Response("CommentUpdateView", user, comment_id, "",
                                Comment_get_object(user, comment_id), <<>>)
            /\ UNCHANGED comments
       ELSE IF ~valid
       THEN /\ resp' = Response("CommentUpdateView", user, comment_id, "",
                                "200_form", <<>>)
            /\ UNCHANGED comments
       ELSE /\ comments' = [comments EXCEPT ![comment_id].text = text]
            /\ resp' = Response("CommentUpdateView", user, comment_id, "",
                                "302_success", <<>>)
    /\ UNCHANGED <<posts, categories, post_seq, comment_seq, today,
                   import_date, listing>>

\* POST /posts/<post_id>/delete_comment/<comment_id>/
CommentDeleteView(user, comment_id) ==
    /\ IF CommentMixin_dispatch(user, comment_id) # "pass"
       THEN /\ resp' = Response("CommentDeleteView", user, comment_id, "",
                                CommentMixin_dispatch(user, comment_id), <<>>)
            /\ UNCHANGED comments
       ELSE IF Comment_get_object(user, comment_id) # "found"
       THEN /\ resp' = Response("CommentDeleteView", user, comment_id, "",
                                Comment_get_object(user, comment_id), <<>>)
            /\ UNCHANGED comments
       ELSE /\ comments' = [c \in DOMAIN comments \ {comment_id} |-> comments[c]]
            /\ resp' = Response("CommentDeleteView", user, comment_id, "",
                                "302_success", <<>>)
    /\ UNCHANGED <<posts, categories, post_seq, comment_seq, today,
                   import_date, listing>>

\* ------------------------------------------------------------ specification
Next ==
    \/ AdvanceDate
    \/ ImportViews
    \/ \E pk \in PostPks, flag \in BOOLEAN : PostAdmin_set_is_published(pk, flag)
    \/ \E slug \in Slugs, flag \in BOOLEAN :
           CategoryAdmin_set_is_published(slug, flag)
    \/ \E user \in Requesters, username \in Usernames, param \in StorePageParams :
           ProfileListView(user, username, param)
    \/ \E user \in Requesters, param \in StorePageParams : PostListView(user, param)
    \/ \E user \in Requesters, pk \in PostPks : PostDetailView(user, pk)
    \/ \E user \in Requesters, slug \in SlugArgs, param \in StorePageParams :
           CategoryDetailView(user, slug, param)
    \/ \E user \in Requesters, valid \in BOOLEAN,
          category \in Slugs, pub_date \in Dates \cup {NoDate} :
           PostCreateView(user, valid, category, pub_date)
    \/ \E user \in Requesters, pk \in PostPks, method \in {"GET", "POST"} :
           PostUpdateView(user, pk, method)
    \/ \E user \in Requesters, pk \in PostPks : PostDeleteView(user, pk)
    \/ \E user \in Requesters, pk \in PostPks, valid \in BOOLEAN, text \in Texts :
           CommentCreateView(user, pk, valid, text)
    \/ \E user \in Requesters, comment_id \in CommentPks, valid \in BOOLEAN,
          text \in Texts : CommentUpdateView(user, comment_id, valid, text)
    \/ \E user \in Requesters, comment_id \in CommentPks :
           CommentDeleteView(user, comment_id)

Spec == Init /\ [][Next]_vars

\* The handlers that read or write what the profile listing shows: Post rows,
\* their flags and the date.  Comment rows and the imported index queryset
\* are not read by ProfileListView.
NextProfile ==
    \/ AdvanceDate
    \/ \E pk \in PostPks, flag \in BOOLEAN : PostAdmin_set_is_published(pk, flag)
    \/ \E slug \in Slugs, flag \in BOOLEAN :
           CategoryAdmin_set_is_published(slug, flag)
    \/ \E user \in Requesters, valid \in BOOLEAN,
          category \in Slugs, pub_date \in Dates \cup {NoDate} :
           PostCreateView(user, valid, category, pub_date)
    \/ \E user \in Requesters, username \in Usernames, param \in StorePageParams :
           ProfileListView(user, username, param)

SpecProfile == Init /\ [][NextProfile]_vars

\* ------------------------------------------------- pagination of a listing
\* The visible listing of a request, reduced to its length: the items are
\* the positions 1..n of the ordered queryset.
Positions(n) == [i \in 1..n |-> i]

InitPage ==
    /\ posts = <<>>
    /\ comments = <<>>
    /\ categories = [s \in Slugs |-> [is_published |-> TRUE]]
    /\ post_seq = 0
    /\ comment_seq = 0
    /\ today = 0
    /\ import_date = 0
    /\ resp = NoResponse
    /\ listing \in {[NoListing EXCEPT !.n = k] : k \in 0..MaxItems}

Paginated(view, param, r) ==
    [n |-> listing.n, view |-> view, param |-> param,
     status |-> r.status, items |-> r.items]

\* PostListView: ListView with paginate_by = 10.
PostListView_paginate(param) ==
    /\ listing' = Paginated("PostListView", param,
                            paginate_queryset(Positions(listing.n), param))
    /\ UNCHANGED <<store, today, import_date, resp>>

\* ProfileListView: ListView with paginate_by = 10.
ProfileListView_paginate(param) ==
    /\ listing' = Paginated("ProfileListView", param,
                            paginate_queryset(Positions(listing.n), param))
    /\ UNCHANGED <<store, today, import_date, resp>>

\* CategoryDetailView.get_context_data: Paginator(..., 10).get_page(page).
CategoryDetailView_paginate(param) ==
    /\ listing' = Paginated("CategoryDetailView", param,
                            get_page(Positions(listing.n), param))
    /\ UNCHANGED <<store, today, import_date, resp>>

NextPage ==
    \/ \E param \in PageParams : PostListView_paginate(param)
    \/ \E param \in PageParams : ProfileListView_paginate(param)
    \/ \E param \in PageParams : CategoryDetailView_paginate(param)

SpecPage == InitPage /\ [][NextPage]_vars

\* =================================================================== claims
\* The visibility rule of a public listing: the post is published, its
\* category is published and its pub_date is not after the current date.
IsPublic(p) ==
    /\ posts[p].is_published
    /\ categories[posts[p].category].is_published
    /\ posts[p].pub_date <= today

Listed(p) == \E i \in 1..Len(resp.items) : resp.items[i] = p

PostMutations == {"PostUpdateView", "PostDeleteView"}
CommentMutations == {"CommentUpdateView", "CommentDeleteView"}
Refusals == {"302_login", "302_index", "302_detail", "403", "404"}

\* C1: every post a public listing returns (the index, a category page, a
\* profile viewed by somebody other than its owner) is published, in a
\* published category and not dated after the current date.
C1_PublicListingsOnlyPublicPosts ==
    (/\ resp.status = "200"
     /\ \/ resp.op \in {"PostListView", "CategoryDetailView"}
        \/ resp.op = "ProfileListView" /\ resp.user # resp.name)
    => \A i \in 1..Len(resp.items) : IsPublic(resp.items[i])

\* C2: the detail view never returns an unpublished post, a future-dated post
\* or a post of an unpublished category to a viewer who is not its author.
C2_DetailHidesNonPublicPost ==
    (/\ resp.op = "PostDetailView"
     /\ resp.pk \in DOMAIN posts
     /\ resp.user # posts[resp.pk].author
     /\ ~IsPublic(resp.pk))
    => (resp.status = "404" /\ resp.items = <<>>)

\* C3: the detail page of a category with is_published = false is NotFound
\* and renders no posts.
C3_UnpublishedCategoryNotFound ==
    (/\ resp.op = "CategoryDetailView"
     /\ resp.name \in DOMAIN categories
     /\ ~categories[resp.name].is_published)
    => (resp.status = "404" /\ resp.items = <<>>)

\* C4: an update or delete request by an authenticated user on a Post or
\* Comment of another author leaves the stored row as it was.
C4_NonAuthorLeavesRowUnchanged ==
    [][/\ (/\ resp'.op \in PostMutations
           /\ is_authenticated(resp'.user)
           /\ resp'.pk \in DOMAIN posts
           /\ posts[resp'.pk].author # resp'.user)
          => (resp'.pk \in DOMAIN posts' /\ posts'[resp'.pk] = posts[resp'.pk])
       /\ (/\ resp'.op \in CommentMutations
           /\ is_authenticated(resp'.user)
           /\ resp'.pk \in DOMAIN comments
           /\ comments[resp'.pk].author # resp'.user)
          => (/\ resp'.pk \in DOMAIN comments'
              /\ comments'[resp'.pk] = comments[resp'.pk])]_vars

\* C5: an update or delete request by the author of an existing Post or
\* Comment is never redirected, denied or answered NotFound.
C5_AuthorPassesGuard ==
    [][/\ (/\ resp'.op \in PostMutations
           /\ resp'.pk \in DOMAIN posts
           /\ posts[resp'.pk].author = resp'.user)
          => resp'.status \notin Refusals
       /\ (/\ resp'.op \in CommentMutations
           /\ resp'.pk \in DOMAIN comments
           /\ comments[resp'.pk].author = resp'.user)
          => resp'.status \notin Refusals]_vars

\* C6: an update or delete request is answered NotFound exactly when the
\* named Post (for a post view) or Comment (for a comment view) does not
\* exist, whoever asks.
C6_NotFoundIffMissing ==
    [][/\ resp'.op \in PostMutations
          => (resp'.status = "404" <=> resp'.pk \notin DOMAIN posts)
       /\ resp'.op \in CommentMutations
          => (resp'.status = "404" <=> resp'.pk \notin DOMAIN comments)]_vars

\* C7: an anonymous caller's create, update or delete request on an existing
\* target is answered with the redirect to the login page and changes
\* nothing in the store.
C7_AnonymousRedirectedToLogin ==
    [][(/\ resp'.user = Anonymous
        /\ \/ resp'.op = "PostCreateView"
           \/ resp'.op = "CommentCreateView" /\ resp'.pk \in DOMAIN posts
           \/ resp'.op \in PostMutations /\ resp'.pk \in DOMAIN posts
           \/ resp'.op \in CommentMutations /\ resp'.pk \in DOMAIN comments)
       => (resp'.status = "302_login" /\ store' = store)]_vars

\* What the claimed pagination returns for n visible items: the last page
\* number, the page a parameter selects (the requested page when it exists,
\* the first page for a number below 1 or a parameter that is absent or no
\* number, the last page for a number beyond it) and the items of page k.
LastPage(n) == IF n = 0 THEN 1 ELSE (n + 9) \div 10
ClampedPage(n, param) ==
    IF param.kind # "int" THEN 1
    ELSE IF param.n < 1 THEN 1
    ELSE IF param.n > LastPage(n) THEN LastPage(n)
    ELSE param.n
PageSlice(n, k) ==
    [i \in 1..((IF 10 * k < n THEN 10 * k ELSE n) - 10 * (k - 1))
        |-> 10 * (k - 1) + i]

\* C8: every paginated listing (index, profile, category) answers any page
\* parameter with a page of at most 10 items and never fails: the requested
\* page when it exists, the first page for a number below 1 or a parameter
\* that is absent or no number, the last page for a number beyond it.
C8_PageParameterClamps ==
    listing.view # "none"
    => (/\ listing.status = "200"
        /\ listing.items = PageSlice(listing.n, ClampedPage(listing.n, listing.param)))

\* C9: the profile page of the requesting user lists all of that user's
\* posts and no others, whatever their flags and dates, newest first.
C9_OwnProfileListsAllOwnPosts ==
    (/\ resp.op = "ProfileListView"
     /\ resp.user \in Users
     /\ resp.user = resp.name)
    => (/\ resp.status = "200"
        /\ {resp.items[i] : i \in 1..Len(resp.items)}
               = {p \in DOMAIN posts : posts[p].author = resp.user}
        /\ \A i, j \in 1..Len(resp.items) :
               i < j => (/\ resp.items[i] # resp.items[j]
                         /\ posts[resp.items[i]].pub_date
                                >= posts[resp.items[j]].pub_date))

\* C9's case: an own profile page showing two posts of different dates, among
\* them an unpublished post, a post dated in the future and a post of an
\* unpublished category.
C9_Witness ==
    /\ resp.op = "ProfileListView"
    /\ resp.user = resp.name
    /\ resp.status = "200"
    /\ Len(resp.items) = 2
    /\ posts[resp.items[1]].pub_date > posts[resp.items[2]].pub_date
    /\ \E i \in 1..2 : ~posts[resp.items[i]].is_published
    /\ \E i \in 1..2 : posts[resp.items[i]].pub_date > today
    /\ \E i \in 1..2 : ~categories[posts[resp.items[i]].category].is_published

\* C10: the index lists every post that is published, in a published
\* category and dated no later than the date of the request.
C10_IndexListsEveryPublicPost ==
    resp.op = "PostListView"
    => \A p \in DOMAIN posts : IsPublic(p) => Listed(p)

====
